---- MODULE Spec2Model ----
(***************************************************************************)
(* Onboarding platform backend: the application handlers                   *)
(* (controllers/applicationControllers.js over models/Applications.js),    *)
(* the auth handlers (controllers/authController.js over models/User.js)   *)
(* and the relational schema they run against (migration 001).             *)
(*                                                                         *)
(* Strings that the code only stores or compares are TLA+ strings.  An     *)
(* email and an :id path value are inspected character by character (by    *)
(* the email regex, by the integer parser of the store), so they are       *)
(* sequences of one-character strings.  A JSON body is a function whose    *)
(* domain is the set of keys the client sent.                              *)
(***************************************************************************)
EXTENDS Integers, Sequences, FiniteSets, TLC

VARIABLES
    applications,   \* rows of table applications, in insertion order
    appIdSeq,       \* last value handed out by applications_id_seq
    users,          \* rows of table users, in insertion order
    userIdSeq,      \* last value handed out by users_id_seq
    now,            \* CURRENT_TIMESTAMP of the store
    pc,             \* per in-flight register request: position in the handler
    regReq,         \* per in-flight register request: its body
    last            \* the last handler step: operation, request, response
                    \* (and, for a status update that found its row, the
                    \* status the row had before)

vars == <<applications, appIdSeq, users, userIdSeq, now, pc, regReq, last>>

appVars  == <<applications, appIdSeq>>
userVars == <<users, userIdSeq>>

-----------------------------------------------------------------------------
(* Bounds of the model *)

MaxApps  == 2      \* rows in applications
MaxAppId == 3      \* values drawn from applications_id_seq
MaxUsers == 2      \* rows in users
MaxUserId == 3     \* values drawn from users_id_seq
MaxClock == 1      \* ticks of the store's clock
NumReqs  == 2      \* register requests in flight at once

Reqs == 1..NumReqs

-----------------------------------------------------------------------------
(* Values *)

\* JSON null in a body, SQL NULL in a column
NULL == "<null>"

\* A string one character longer than first_name / last_name VARCHAR(100)
LongName ==
    "Maximiliana-Alexandrina-Wilhelmina-Constantina-Bartholomea-Theodorica-Evangelina-Seraphina-Clementina"

FirstNames == {"", "John", LongName}
LastNames  == {"", "Doe"}
ProductTypes == {NULL}

JohnEmail == <<"j", "@", "x", ".", "c">>                \* j@x.c
JaneEmail == <<"a", "@", "b", ".", "c", ".", "d">>      \* a@b.c.d

Whitespace == {" "}

\* emails the requests carry: well-formed, and each way of being malformed
Emails ==
    { <<>>,
      JohnEmail,
      JaneEmail,
      <<"j", "x", ".", "c">>,               \* no @
      <<"j", "@", "x", "c">>,               \* no dot after the @
      <<"j", ".", "k", "@", "x">>,          \* dot only in the local part
      <<"@", "x", ".", "c">>,               \* empty local part
      <<"j", " ", "@", "x", ".", "c">>,     \* whitespace
      <<"j", "@", "x", "@", "y", ".", "c">>,\* two @
      <<"j", "@", "x", ".">>,               \* empty top-level part
      <<"j", "@", ".", "c">> }              \* empty domain label

Digits == {"0", "1", "2", "3", "4", "5", "6", "7", "8", "9"}

\* :id path values
IdParams ==
    { <<"1">>, <<"2">>, <<"4", "2">>, <<"a", "b", "c">> }

StatusInputs == {"submitted", "under_review", "approved", "rejected",
                 "", "bogus", "Approved"}

\* register and login bodies
AuthEmails == { <<>>, JohnEmail, JaneEmail, <<"j", "x", ".", "c">> }
RegisterPasswords == {"", "passwor", "password"}
LoginPasswords == {"", "password", "wrongpassword"}
Roles == {"admin"}

AuthFields == {"email", "password", "role"}

RegisterBodies ==
    { [k \in S |-> CASE k = "email" -> e
                     [] k = "password" -> p
                     [] k = "role" -> ro] :
        S \in SUBSET AuthFields, e \in AuthEmails, p \in RegisterPasswords,
        ro \in Roles }

LoginBodies ==
    { [k \in S |-> CASE k = "email" -> e
                     [] k = "password" -> p] :
        S \in SUBSET {"email", "password"}, e \in AuthEmails,
        p \in LoginPasswords }

SubmitFields == {"firstName", "lastName", "email", "productType"}

SubmitBodies ==
    { [k \in S |-> CASE k = "firstName" -> f
                     [] k = "lastName" -> l
                     [] k = "email" -> e
                     [] k = "productType" -> p] :
        S \in SUBSET SubmitFields, f \in FirstNames, l \in LastNames,
        e \in Emails, p \in ProductTypes }

\* the submissions the admin scenarios start from: the two of the test
\* suite, one the validation rejects and one the store rejects
CoreBodies ==
    { [firstName |-> "John", lastName |-> "Doe", email |-> JohnEmail],
      [firstName |-> "Jane", lastName |-> "Smith", email |-> JaneEmail,
       productType |-> "savings"],
      [firstName |-> "John", email |-> JohnEmail],
      [firstName |-> LongName, lastName |-> "Doe", email |-> JohnEmail] }

StatusBodies ==
    { [k \in S |-> s] : S \in SUBSET {"status"}, s \in StatusInputs }

-----------------------------------------------------------------------------
(* JavaScript and store primitives *)

\* FalsyField that takes the empty string for a value
FalsyFieldEmptyAccepted(body, k) ==
    \/ k \notin DOMAIN body
    \/ body[k] = NULL

\* !x for a body field holding a string (undefined, null and "" are falsy)
FalsyField(body, k) ==
    \/ k \notin DOMAIN body
    \/ body[k] = NULL
    \/ body[k] = ""

\* !email for the email field (undefined and the empty string are falsy)
FalsyEmail(body) ==
    \/ "email" \notin DOMAIN body
    \/ body["email"] = <<>>

\* [^\s@]+ : a non-empty run without whitespace and without @
PlainRun(s, from, to) ==
    /\ from <= to
    /\ \A i \in from..to : s[i] \notin Whitespace /\ s[i] # "@"

\* emailRegex without the dot: /^[^\s@]+@[^\s@]+$/
emailRegexNoDot(s) ==
    \E at \in 1..Len(s) :
        /\ s[at] = "@"
        /\ PlainRun(s, 1, at - 1)
        /\ PlainRun(s, at + 1, Len(s))

\* /^[^\s@]+@[^\s@]+\.[^\s@]+$/.test(s)
emailRegex(s) ==
    \E at \in 1..Len(s) : \E dot \in 1..Len(s) :
        /\ s[at] = "@"
        /\ s[dot] = "."
        /\ PlainRun(s, 1, at - 1)
        /\ PlainRun(s, at + 1, dot - 1)
        /\ PlainRun(s, dot + 1, Len(s))

\* validStatuses with one more entry
validStatusesLoose ==
    {"submitted", "under_review", "approved", "rejected", "bogus"}

validStatuses == {"submitted", "under_review", "approved", "rejected"}

DigitValue(c) ==
    CASE c = "0" -> 0 [] c = "1" -> 1 [] c = "2" -> 2 [] c = "3" -> 3
      [] c = "4" -> 4 [] c = "5" -> 5 [] c = "6" -> 6 [] c = "7" -> 7
      [] c = "8" -> 8 [] c = "9" -> 9

RECURSIVE DecimalValue(_)
DecimalValue(s) ==
    IF s = <<>> THEN 0
    ELSE 10 * DecimalValue(SubSeq(s, 1, Len(s) - 1)) + DigitValue(s[Len(s)])

Int4Max == 2147483647

\* the store's conversion of a text parameter to the INTEGER id column:
\* it raises an error for text that is not an integer in range
IsInt4(s) ==
    /\ Len(s) > 0
    /\ \A i \in 1..Len(s) : s[i] \in Digits
    /\ DecimalValue(s) <= Int4Max

NameColumnLen == 100
EmailColumnLen == 255
ProductTypeColumnLen == 100

\* the column constraints of table applications an INSERT must satisfy
ApplicationRowOk(firstName, lastName, email, productType) ==
    /\ Len(firstName) <= NameColumnLen
    /\ Len(lastName) <= NameColumnLen
    /\ Len(email) <= EmailColumnLen
    /\ productType # NULL
    /\ Len(productType) <= ProductTypeColumnLen

RowsWithId(table, id) == { i \in 1..Len(table) : table[i].id = id }

\* what Express answers when a handler passes an error to next()
InternalError == [error |-> "Internal Server Error"]

Respond(op, req, code, body) ==
    last' = [op |-> op, req |-> req, code |-> code, body |-> body]

-----------------------------------------------------------------------------
(* models/Applications.js *)

\* ApplicationCreate that leaves status to the column default
ApplicationCreateDefaultStatus(firstName, lastName, email, productType) ==
    [ id |-> appIdSeq + 1,
      user_id |-> NULL,
      first_name |-> firstName,
      last_name |-> lastName,
      email |-> email,
      product_type |-> productType,
      status |-> "sumbitted",
      created_at |-> now,
      updated_at |-> now ]

\* the row INSERT INTO applications ... VALUES ($1, $2, $3, $4, 'submitted')
\* adds: id from the sequence, user_id unset, both timestamps defaulted
ApplicationCreate(firstName, lastName, email, productType) ==
    [ id |-> appIdSeq + 1,
      user_id |-> NULL,
      first_name |-> firstName,
      last_name |-> lastName,
      email |-> email,
      product_type |-> productType,
      status |-> "submitted",
      created_at |-> now,
      updated_at |-> now ]

\* ApplicationView that reports the status the record was created with
ApplicationViewAsCreated(row) ==
    [ id |-> row.id,
      firstName |-> row.first_name,
      lastName |-> row.last_name,
      email |-> row.email,
      productType |-> row.product_type,
      status |-> "submitted",
      createdAt |-> row.created_at ]

\* the columns findAll / findById select, under their aliases
ApplicationView(row) ==
    [ id |-> row.id,
      firstName |-> row.first_name,
      lastName |-> row.last_name,
      email |-> row.email,
      productType |-> row.product_type,
      status |-> row.status,
      createdAt |-> row.created_at ]

\* ApplicationFindAll ordered by created_at ascending
ApplicationFindAllAscending ==
    LET n == Len(applications)
        orders == { p \in [1..n -> 1..n] :
                      /\ \A i, j \in 1..n : i # j => p[i] # p[j]
                      /\ \A i \in 1..n : \A j \in 1..n :
                           i < j => applications[p[i]].created_at
                                      <= applications[p[j]].created_at }
    IN  { [i \in 1..n |-> ApplicationView(applications[p[i]])] : p \in orders }

\* SELECT ... ORDER BY created_at DESC: every ordering of the rows the
\* store may return (rows with equal created_at come in any order)
ApplicationFindAll ==
    LET n == Len(applications)
        orders == { p \in [1..n -> 1..n] :
                      /\ \A i, j \in 1..n : i # j => p[i] # p[j]
                      /\ \A i \in 1..n : \A j \in 1..n :
                           i < j => applications[p[i]].created_at
                                      >= applications[p[j]].created_at }
    IN  { [i \in 1..n |-> ApplicationView(applications[p[i]])] : p \in orders }

\* ApplicationUpdateStatus that treats approved and rejected as final
ApplicationUpdateStatusFinal(id, status) ==
    [ i \in 1..Len(applications) |->
        IF applications[i].id = id
           /\ applications[i].status \notin {"approved", "rejected"}
        THEN [applications[i] EXCEPT !.status = status, !.updated_at = now]
        ELSE applications[i] ]

\* ApplicationUpdateStatus that writes only over the status a record was
\* created with
ApplicationUpdateStatusFirstWins(id, status) ==
    [ i \in 1..Len(applications) |->
        IF applications[i].id = id /\ applications[i].status = "submitted"
        THEN [applications[i] EXCEPT !.status = status, !.updated_at = now]
        ELSE applications[i] ]

\* ApplicationUpdateStatus without the WHERE clause
ApplicationUpdateStatusEveryRow(id, status) ==
    [ i \in 1..Len(applications) |->
        [applications[i] EXCEPT !.status = status, !.updated_at = now] ]

\* table applications after UPDATE ... SET status = $1,
\* updated_at = CURRENT_TIMESTAMP WHERE id = $2
ApplicationUpdateStatus(id, status) ==
    [ i \in 1..Len(applications) |->
        IF applications[i].id = id
        THEN [applications[i] EXCEPT !.status = status, !.updated_at = now]
        ELSE applications[i] ]

\* the row UPDATE ... RETURNING id, status, updated_at AS "updatedAt" gives
UpdateStatusReturning(row) ==
    [ id |-> row.id, status |-> row.status, updatedAt |-> row.updated_at ]

-----------------------------------------------------------------------------
(* controllers/applicationControllers.js *)

createApplication(body) ==
    /\ UNCHANGED <<userVars, now, pc, regReq>>
    /\ IF FalsyField(body, "firstName") \/ FalsyField(body, "lastName")
          \/ FalsyEmail(body)
       THEN /\ Respond("createApplication", body, 400,
                       [error |-> "Missing required fields",
                        required |-> <<"firstName", "lastName", "email">>])
            /\ UNCHANGED appVars
       ELSE IF ~emailRegex(body["email"])
       THEN /\ Respond("createApplication", body, 400,
                       [error |-> "Invalid email format"])
            /\ UNCHANGED appVars
       ELSE LET productType == IF "productType" \in DOMAIN body
                               THEN body["productType"] ELSE "checking"
                application == ApplicationCreate(body["firstName"],
                                   body["lastName"], body["email"], productType)
            IN  /\ appIdSeq < MaxAppId
                /\ appIdSeq' = appIdSeq + 1
                /\ IF ApplicationRowOk(body["firstName"], body["lastName"],
                                       body["email"], productType)
                   THEN /\ Len(applications) < MaxApps
                        /\ applications' = Append(applications, application)
                        /\ Respond("createApplication", body, 201,
                                   [applicationId |-> application.id,
                                    status |-> application.status])
                   ELSE /\ applications' = applications
                        /\ Respond("createApplication", body, 500, InternalError)

getAllApplications ==
    /\ UNCHANGED <<appVars, userVars, now, pc, regReq>>
    /\ \E rows \in ApplicationFindAll :
          Respond("getAllApplications", <<>>, 200, rows)

getApplicationById(id) ==
    /\ UNCHANGED <<appVars, userVars, now, pc, regReq>>
    /\ IF ~IsInt4(id)
       THEN Respond("getApplicationById", [id |-> id], 500, InternalError)
       ELSE LET hit == RowsWithId(applications, DecimalValue(id))
            IN  IF hit = {}
                THEN Respond("getApplicationById", [id |-> id], 404,
                             [error |-> "Application not found"])
                ELSE \E i \in hit :
                       Respond("getApplicationById", [id |-> id], 200,
                               ApplicationView(applications[i]))

updateApplicationStatus(id, body) ==
    LET req == [id |-> id, body |-> body]
    IN
    /\ UNCHANGED <<appIdSeq, userVars, now, pc, regReq>>
    /\ IF FalsyField(body, "status")
       THEN /\ Respond("updateApplicationStatus", req, 400,
                       [error |-> "Status is required"])
            /\ UNCHANGED applications
       ELSE IF body["status"] \notin validStatuses
       THEN /\ Respond("updateApplicationStatus", req, 400,
                       [error |-> "Invalid status",
                        validStatuses |-> <<"submitted", "under_review",
                                            "approved", "rejected">>])
            /\ UNCHANGED applications
       ELSE IF ~IsInt4(id)
       THEN /\ Respond("updateApplicationStatus", req, 500, InternalError)
            /\ UNCHANGED applications
       ELSE LET hit == RowsWithId(applications, DecimalValue(id))
            IN  IF hit = {}
                THEN /\ Respond("updateApplicationStatus", req, 404,
                                [error |-> "Application not found"])
                     /\ UNCHANGED applications
                ELSE /\ applications' =
                          ApplicationUpdateStatus(DecimalValue(id), body["status"])
                     /\ \E i \in hit :
                          last' = [op |-> "updateApplicationStatus",
                                   req |-> req, code |-> 200,
                                   body |-> UpdateStatusReturning(applications'[i]),
                                   prior |-> applications[i].status]

-----------------------------------------------------------------------------
(* bcrypt and jsonwebtoken, as the handlers use them *)

BcryptCost == 10

\* bcrypt.hash(password, 10): a one-way value that only the same password
\* verifies against (the salt plays no part in the handlers' decisions)
BcryptHash(password) ==
    "$2b$" \o ToString(BcryptCost) \o "$" \o password

\* bcrypt.compare(plainPassword, hashedPassword)
BcryptCompare(plainPassword, hashedPassword) ==
    hashedPassword = BcryptHash(plainPassword)

\* process.env.JWT_SECRET, process.env.JWT_EXPIRES_IN (in clock ticks)
JWT_SECRET == "your-super-secret-jwt-key"
JWT_EXPIRES_IN == 1

\* the option names jwt.sign accepts; any other name makes it throw
JwtSignOptionKeys ==
    {"expiresIn", "notBefore", "audience", "algorithm", "header", "encoding",
     "issuer", "subject", "jwtid", "noTimestamp", "keyid", "mutatePayload",
     "allowInsecureKeySizes", "allowInvalidAsymmetricKeyTypes"}

JwtSignThrows(options) == \E k \in DOMAIN options : k \notin JwtSignOptionKeys

JwtSignature(claims, secret) == <<"HS256", secret, claims>>

\* jwt.sign(payload, secret, options) when it does not throw
JwtSign(payload, secret, options) ==
    LET claims == [userId |-> payload.userId,
                   email |-> payload.email,
                   role |-> payload.role,
                   iat |-> now,
                   exp |-> IF "expiresIn" \in DOMAIN options
                           THEN now + options["expiresIn"] ELSE NULL]
    IN  [claims |-> claims, signature |-> JwtSignature(claims, secret)]

-----------------------------------------------------------------------------
(* models/User.js *)

RoleColumnLen == 50

\* UserCreate that stores the password as it came
UserCreatePlaintext(email, password, role) ==
    [ id |-> userIdSeq + 1,
      email |-> email,
      password_hash |-> password,
      role |-> role,
      created_at |-> now,
      updated_at |-> now ]

\* the row INSERT INTO users (email, password_hash, role) adds
UserCreate(email, password, role) ==
    [ id |-> userIdSeq + 1,
      email |-> email,
      password_hash |-> BcryptHash(password),
      role |-> role,
      created_at |-> now,
      updated_at |-> now ]

\* UserRowOk without the UNIQUE constraint on email
UserRowOkNoUnique(email, role) ==
    /\ Len(email) <= EmailColumnLen
    /\ role = NULL \/ Len(role) <= RoleColumnLen

\* the column constraints of table users an INSERT must satisfy
UserRowOk(email, role) ==
    /\ Len(email) <= EmailColumnLen
    /\ role = NULL \/ Len(role) <= RoleColumnLen
    /\ \A i \in 1..Len(users) : users[i].email # email

\* SELECT * FROM users WHERE email = $1
UserFindByEmail(email) == { i \in 1..Len(users) : users[i].email = email }

UserValidatePassword(plainPassword, hashedPassword) ==
    BcryptCompare(plainPassword, hashedPassword)

-----------------------------------------------------------------------------
(* controllers/authController.js *)

MinPasswordLength == 8

\* register up to the answer of User.findByEmail
registerCheck(r, body) ==
    /\ pc[r] = "idle"
    /\ UNCHANGED <<appVars, userVars, now>>
    /\ IF FalsyEmail(body) \/ FalsyField(body, "password")
       THEN /\ Respond("register", body, 400,
                       [error |-> "Email and password are required"])
            /\ UNCHANGED <<pc, regReq>>
       ELSE IF ~emailRegex(body["email"])
       THEN /\ Respond("register", body, 400,
                       [error |-> "Invalid email format"])
            /\ UNCHANGED <<pc, regReq>>
       ELSE IF Len(body["password"]) < MinPasswordLength
       THEN /\ Respond("register", body, 400,
                       [error |-> "Password must be at least 8 characters"])
            /\ UNCHANGED <<pc, regReq>>
       ELSE IF UserFindByEmail(body["email"]) # {}
       THEN /\ Respond("register", body, 400,
                       [error |-> "User already exists\" "])
            /\ UNCHANGED <<pc, regReq>>
       ELSE /\ pc' = [pc EXCEPT ![r] = "create"]
            /\ regReq' = [regReq EXCEPT ![r] = body]
            /\ UNCHANGED last

\* register from User.create to the response
registerCreate(r) ==
    LET body == regReq[r]
        role == IF "role" \in DOMAIN body THEN body["role"] ELSE "customer"
        user == UserCreate(body["email"], body["password"], role)
        options == [eexpiresIn |-> JWT_EXPIRES_IN]
    IN
    /\ pc[r] = "create"
    /\ pc' = [pc EXCEPT ![r] = "idle"]
    /\ regReq' = [regReq EXCEPT ![r] = <<>>]
    /\ UNCHANGED <<appVars, now>>
    /\ userIdSeq < MaxUserId
    /\ userIdSeq' = userIdSeq + 1
    /\ IF ~UserRowOk(body["email"], role)
       THEN /\ users' = users
            /\ Respond("register", body, 500, InternalError)
       ELSE /\ Len(users) < MaxUsers
            /\ users' = Append(users, user)
            /\ IF JwtSignThrows(options)
               THEN Respond("register", body, 500, InternalError)
               ELSE Respond("register", body, 201,
                      [message |-> "User registered successfully",
                       token |-> JwtSign([userId |-> user.id,
                                          email |-> user.email,
                                          role |-> user.role],
                                         JWT_SECRET, options),
                       user |-> [id |-> user.id, email |-> user.email,
                                 role |-> user.role]])

login(body) ==
    /\ UNCHANGED <<appVars, userVars, now, pc, regReq>>
    /\ IF FalsyEmail(body) \/ FalsyField(body, "password")
       THEN Respond("login", body, 400,
                    [error |-> "Email and password are required"])
       ELSE LET found == UserFindByEmail(body["email"])
            IN  IF found = {}
                THEN Respond("login", body, 401,
                             [error |-> "Invalid credentials"])
                ELSE \E i \in found :
                       LET user == users[i]
                       IN  Respond("login", body, 200,
                             [message |-> "Login successful",
                              token |-> JwtSign([userId |-> user.id,
                                                 email |-> user.email,
                                                 role |-> user.role],
                                                JWT_SECRET,
                                                [expiresIn |-> JWT_EXPIRES_IN]),
                              user |-> [id |-> user.id, email |-> user.email,
                                        role |-> user.role]])

-----------------------------------------------------------------------------
(* jsonwebtoken's verify and middleware/auth.js *)

\* a middleware calls next(): no response is sent, and authenticate leaves
\* the decoded token on the request as req.user
Proceed(op, req, user) ==
    last' = [op |-> op, req |-> req, code |-> 0, body |-> <<>>,
             next |-> TRUE, user |-> user]

\* An Authorization header value is a sequence of characters in which a
\* compact JWT, when there is one, is a single element.
Bearer == <<"B", "e", "a", "r", "e", "r", " ">>

\* startsWith that looks at the length alone
StartsWithAnything(s, prefix) == Len(s) >= Len(prefix)

\* String.prototype.startsWith
StartsWith(s, prefix) ==
    /\ Len(s) >= Len(prefix)
    /\ SubSeq(s, 1, Len(prefix)) = prefix

\* String.prototype.substring(n)
Substring(s, n) == SubSeq(s, n + 1, Len(s))

\* jwt.verify that takes a token for expired one tick before its exp
JwtVerifyExpiresEarly(token, secret) ==
    IF Len(token) # 1
    THEN "JsonWebTokenError"
    ELSE IF token[1].signature # JwtSignature(token[1].claims, secret)
    THEN "JsonWebTokenError"
    ELSE IF now + 1 >= token[1].claims.exp
    THEN "TokenExpiredError"
    ELSE "none"

\* jwt.verify(token, secret): the name of the error it throws, or "none".
\* The signature is checked before the expiry.
JwtVerify(token, secret) ==
    IF Len(token) # 1
    THEN "JsonWebTokenError"
    ELSE IF token[1].signature # JwtSignature(token[1].claims, secret)
    THEN "JsonWebTokenError"
    ELSE IF now >= token[1].claims.exp
    THEN "TokenExpiredError"
    ELSE "none"

\* exports.authenticate, on a request with the given headers
authenticate(headers) ==
    /\ UNCHANGED <<appVars, userVars, now, pc, regReq>>
    /\ IF \/ "authorization" \notin DOMAIN headers
          \/ Len(headers["authorization"]) = 0
          \/ ~StartsWith(headers["authorization"], Bearer)
       THEN Respond("authenticate", headers, 401,
                    [error |-> "No token provided"])
       ELSE LET token == Substring(headers["authorization"], 7)
                error == JwtVerify(token, JWT_SECRET)
            IN  IF error = "none"
                THEN Proceed("authenticate", headers, token[1].claims)
                ELSE IF error = "JsonWebtTokenError"
                THEN Respond("authenticate", headers, 401,
                             [error |-> "Invalid token"])
                ELSE IF error = "TokenExpiredError"
                THEN Respond("authenticate", headers, 401,
                             [error |-> "Token expired"])
                ELSE Respond("authenticate", headers, 401,
                             [error |-> "Authentication failed"])

\* the identifiers bound inside the function authorize(...roles) returns
AuthorizeScope == {"roles", "req", "res", "next"}

\* the middleware authorize(...roles) returns, on request context req; the
\* role is read through the identifier reqq, and reading an identifier
\* that is not in scope throws a ReferenceError, which Express answers
\* with 500
authorize(roles, req) ==
    LET subject == "reqq"
        request == [roles |-> roles, req |-> req]
    IN
    /\ UNCHANGED <<appVars, userVars, now, pc, regReq>>
    /\ IF "user" \notin DOMAIN req
       THEN Respond("authorize", request, 401,
                    [error |-> "Not authenticated"])
       ELSE IF subject \notin AuthorizeScope
       THEN Respond("authorize", request, 500, InternalError)
       ELSE IF req["user"].role \notin roles
       THEN Respond("authorize", request, 403,
                    [error |-> "Insufficient permisisons"])
       ELSE Proceed("authorize", request, req["user"])

\* the store's clock advances
Tick ==
    /\ now < MaxClock
    /\ now' = now + 1
    /\ UNCHANGED <<appVars, userVars, pc, regReq, last>>

-----------------------------------------------------------------------------

Init ==
    /\ applications = <<>>
    /\ appIdSeq = 0
    /\ users = <<>>
    /\ userIdSeq = 0
    /\ now = 0
    /\ pc = [r \in Reqs |-> "idle"]
    /\ regReq = [r \in Reqs |-> <<>>]
    /\ last = [op |-> "none", req |-> <<>>, code |-> 0, body |-> <<>>]

SubmitStep == \E body \in SubmitBodies : createApplication(body)
CoreSubmitStep == \E body \in CoreBodies : createApplication(body)
ListStep == getAllApplications
GetStep == \E id \in IdParams : getApplicationById(id)
UpdateStep == \E id \in IdParams : \E body \in StatusBodies :
                 updateApplicationStatus(id, body)

\* the public route alone, over every body
NextSubmit ==
    \/ SubmitStep

SpecSubmit == Init /\ [][NextSubmit]_vars

RegisterCheckStep ==
    \E r \in Reqs : \E body \in RegisterBodies : registerCheck(r, body)
RegisterCreateStep == \E r \in Reqs : registerCreate(r)
LoginStep == \E body \in LoginBodies : login(body)

\* the auth handlers, register requests interleaving at their awaits
NextAuth ==
    \/ RegisterCheckStep
    \/ RegisterCreateStep
    \/ LoginStep

SpecAuth == Init /\ [][NextAuth]_vars

\* all application routes
NextApp ==
    \/ CoreSubmitStep
    \/ ListStep
    \/ GetStep
    \/ UpdateStep
    \/ Tick

SpecApp == Init /\ [][NextApp]_vars

-----------------------------------------------------------------------------
(* Requests to the auth handlers and the middleware *)

CoreRegisterBodies ==
    { [email |-> JohnEmail, password |-> "password"],
      [email |-> JaneEmail, password |-> "password", role |-> "admin"] }

CoreLoginBodies ==
    { [email |-> JohnEmail, password |-> "password"],
      [email |-> JaneEmail, password |-> "password"],
      [email |-> JohnEmail] }

ForgedSecret == "not-the-secret"

\* a token made up by a client that does not know the secret
ForgedToken ==
    LET claims == [userId |-> 1, email |-> JohnEmail, role |-> "admin",
                   iat |-> 0, exp |-> MaxClock + 1]
    IN  [claims |-> claims, signature |-> JwtSignature(claims, ForgedSecret)]

\* the tokens a client can present: the one the last response handed it,
\* that token signed again without the secret, that token with its role
\* edited, and a made-up one
PresentableTokens ==
    LET held == IF last.op \in {"register", "login"}
                   /\ "token" \in DOMAIN last.body
                THEN {last.body.token} ELSE {}
    IN  held \cup { [t EXCEPT !.signature =
                        JwtSignature(t.claims, ForgedSecret)] : t \in held }
             \cup { [t EXCEPT !.claims.role = "admin"] : t \in held }
             \cup {ForgedToken}

LowerBearer == <<"b", "e", "a", "r", "e", "r", " ">>

\* request headers: no Authorization header, an empty one, the scheme
\* alone, the scheme with text that is no JWT, and each presentable token
\* after 'Bearer ', after 'bearer ' and bare
AuthHeaders ==
    {<<>>}
    \cup { [authorization |-> a] :
             a \in {<<>>, Bearer, Bearer \o <<"x", "y">>} }
    \cup { [authorization |-> Bearer \o <<t>>] : t \in PresentableTokens }
    \cup { [authorization |-> LowerBearer \o <<t>>] : t \in PresentableTokens }
    \cup { [authorization |-> <<t>>] : t \in PresentableTokens }

\* the role lists routes are guarded with
AllowedRoles == { {"admin"}, {"admin", "customer"} }

\* the request context authorize sees: without req.user, or with the user
\* authenticate has just attached
RequestContexts ==
    {<<>>}
    \cup ( IF last.op = "authenticate" /\ "next" \in DOMAIN last
           THEN {[user |-> last.user]} ELSE {} )

CoreRegisterCheckStep ==
    \E r \in Reqs : \E body \in CoreRegisterBodies : registerCheck(r, body)
CoreLoginStep == \E body \in CoreLoginBodies : login(body)
AuthenticateStep == \E headers \in AuthHeaders : authenticate(headers)
AuthorizeStep ==
    \E roles \in AllowedRoles : \E req \in RequestContexts :
        authorize(roles, req)

\* the auth handlers and the two middleware, with the clock
NextAccess ==
    \/ CoreRegisterCheckStep
    \/ RegisterCreateStep
    \/ CoreLoginStep
    \/ AuthenticateStep
    \/ AuthorizeStep
    \/ Tick

SpecAccess == Init /\ [][NextAccess]_vars

-----------------------------------------------------------------------------
(* index.js: the /admin/applications mount *)

\* app.use('/admin/applications', applicationRoutes) mounts the router and
\* nothing in front of it, so a request reaches the router's handler
\* whatever headers it carries
AdminGetAll(headers) == getAllApplications
AdminGetById(headers, id) == getApplicationById(id)
AdminUpdateStatus(headers, id, body) == updateApplicationStatus(id, body)

\* headers of requests that hold no token issued by the service
AdminHeaders == { <<>>, [authorization |-> Bearer \o <<ForgedToken>>] }

AdminIds == { <<"1">>, <<"2">> }
AdminStatusBodies == { [status |-> "approved"], [status |-> "rejected"] }

AdminListStep == \E headers \in AdminHeaders : AdminGetAll(headers)
AdminGetStep ==
    \E headers \in AdminHeaders : \E id \in AdminIds :
        AdminGetById(headers, id)
AdminUpdateStep ==
    \E headers \in AdminHeaders : \E id \in AdminIds :
        \E body \in AdminStatusBodies : AdminUpdateStatus(headers, id, body)

\* the public submit route and the admin routes as index.js mounts them
NextAdmin ==
    \/ CoreSubmitStep
    \/ AdminListStep
    \/ AdminGetStep
    \/ AdminUpdateStep

SpecAdmin == Init /\ [][NextAdmin]_vars

-----------------------------------------------------------------------------
(* updateApplicationStatus with requests interleaving at its await *)

\* updateApplicationStatus up to its await: the two checks of req.body.status
updateStatusValidate(r, id, body) ==
    LET req == [id |-> id, body |-> body]
    IN
    /\ pc[r] = "idle"
    /\ UNCHANGED <<appVars, userVars, now>>
    /\ IF FalsyField(body, "status")
       THEN /\ Respond("updateApplicationStatus", req, 400,
                       [error |-> "Status is required"])
            /\ UNCHANGED <<pc, regReq>>
       ELSE IF body["status"] \notin validStatuses
       THEN /\ Respond("updateApplicationStatus", req, 400,
                       [error |-> "Invalid status",
                        validStatuses |-> <<"submitted", "under_review",
                                            "approved", "rejected">>])
            /\ UNCHANGED <<pc, regReq>>
       ELSE /\ pc' = [pc EXCEPT ![r] = "update"]
            /\ regReq' = [regReq EXCEPT ![r] = req]
            /\ UNCHANGED last

\* updateApplicationStatus from the UPDATE statement of
\* Application.updateStatus to the response
updateStatusStore(r) ==
    LET req == regReq[r]
        id == req.id
        body == req.body
    IN
    /\ pc[r] = "update"
    /\ pc' = [pc EXCEPT ![r] = "idle"]
    /\ regReq' = [regReq EXCEPT ![r] = <<>>]
    /\ UNCHANGED <<appIdSeq, userVars, now>>
    /\ IF ~IsInt4(id)
       THEN /\ Respond("updateApplicationStatus", req, 500, InternalError)
            /\ UNCHANGED applications
       ELSE LET hit == RowsWithId(applications, DecimalValue(id))
            IN  IF hit = {}
                THEN /\ Respond("updateApplicationStatus", req, 404,
                                [error |-> "Application not found"])
                     /\ UNCHANGED applications
                ELSE /\ applications' =
                          ApplicationUpdateStatus(DecimalValue(id), body["status"])
                     /\ \E i \in hit :
                          last' = [op |-> "updateApplicationStatus",
                                   req |-> req, code |-> 200,
                                   body |-> UpdateStatusReturning(applications'[i]),
                                   prior |-> applications[i].status]

RaceIds == { <<"1">>, <<"2">>, <<"a", "b", "c">> }
RaceStatusBodies ==
    { [status |-> "approved"], [status |-> "rejected"], [status |-> "bogus"] }

UpdateValidateStep ==
    \E r \in Reqs : \E id \in RaceIds : \E body \in RaceStatusBodies :
        updateStatusValidate(r, id, body)
UpdateStoreStep == \E r \in Reqs : updateStatusStore(r)

\* submissions and status updates, the updates racing at the store
NextRace ==
    \/ CoreSubmitStep
    \/ UpdateValidateStep
    \/ UpdateStoreStep

SpecRace == Init /\ [][NextRace]_vars

-----------------------------------------------------------------------------
(* Submissions that differ in productType *)

ProductTypeInputs == {"", "savings", LongName, NULL}

\* a complete submission without productType and with each productType
ProductBodies ==
    { [firstName |-> "John", lastName |-> "Doe", email |-> JohnEmail] }
    \cup { [firstName |-> f, lastName |-> "Doe", email |-> JohnEmail,
            productType |-> p] :
             f \in {"John", "Jane"}, p \in ProductTypeInputs }

ProductSubmitStep == \E body \in ProductBodies : createApplication(body)

\* the public route over the product types, with the clock
NextProduct ==
    \/ ProductSubmitStep
    \/ Tick

SpecProduct == Init /\ [][NextProduct]_vars

-----------------------------------------------------------------------------
(* index.js: the health check and the public mount *)

\* app.get("/health", ...)
health ==
    /\ UNCHANGED <<appVars, userVars, now, pc, regReq>>
    /\ Respond("health", <<>>, 200, [status |-> "ok"])

\* app.use('/applications', applicationRoutes) mounts the whole router, so
\* each of its routes answers under the public prefix too
PublicCreate(body) == createApplication(body)
PublicGetAll == getAllApplications
PublicGetById(id) == getApplicationById(id)
PublicUpdateStatus(id, body) == updateApplicationStatus(id, body)

PublicCreateStep == \E body \in CoreBodies : PublicCreate(body)
PublicListStep == PublicGetAll
PublicGetStep == \E id \in AdminIds : PublicGetById(id)
PublicUpdateStep ==
    \E id \in AdminIds : \E body \in AdminStatusBodies :
        PublicUpdateStatus(id, body)

\* the requests index.js answers under /applications
NextPublic ==
    \/ PublicCreateStep
    \/ PublicListStep
    \/ PublicGetStep
    \/ PublicUpdateStep

SpecPublic == Init /\ [][NextPublic]_vars

ServiceRegisterBodies ==
    { [email |-> JohnEmail, password |-> "password"] }
ServiceLoginBodies ==
    { [email |-> JohnEmail, password |-> "password"],
      [email |-> JaneEmail, password |-> "password"] }

HealthStep == health
ServiceRegisterCheckStep ==
    \E r \in Reqs : \E body \in ServiceRegisterBodies : registerCheck(r, body)
ServiceLoginStep == \E body \in ServiceLoginBodies : login(body)

\* every handler of the repository: health, the application routes and the
\* auth handlers
NextService ==
    \/ HealthStep
    \/ CoreSubmitStep
    \/ AdminListStep
    \/ AdminGetStep
    \/ AdminUpdateStep
    \/ ServiceRegisterCheckStep
    \/ RegisterCreateStep
    \/ ServiceLoginStep

SpecService == Init /\ [][NextService]_vars

-----------------------------------------------------------------------------
(* Vocabulary of the properties *)

\* a name field that is present and non-empty
NameGiven(body, k) == k \in DOMAIN body /\ body[k] # NULL /\ Len(body[k]) > 0

\* an email field that is present and non-empty
EmailGiven(body) == "email" \in DOMAIN body /\ Len(body["email"]) > 0

Positions(s, c) == { i \in 1..Len(s) : s[i] = c }

\* local@domain.tld: no whitespace, one @ with text before it, and after it
\* a dot with text on both sides
WellFormedEmail(s) ==
    /\ \A i \in 1..Len(s) : s[i] \notin Whitespace
    /\ Cardinality(Positions(s, "@")) = 1
    /\ \E at \in Positions(s, "@") :
         /\ at > 1
         /\ \E dot \in Positions(s, ".") : at + 1 < dot /\ dot < Len(s)

\* the ways of being malformed: no @, no dot in the domain part, empty
\* local part, whitespace
MalformedEmail(s) ==
    \/ Positions(s, "@") = {}
    \/ \E at \in Positions(s, "@") :
         /\ \A j \in Positions(s, "@") : j <= at
         /\ \A dot \in Positions(s, ".") : dot < at
    \/ s[1] = "@"
    \/ \E i \in 1..Len(s) : s[i] \in Whitespace

IsSubmit(l) == l.op = "createApplication"

\* the step answers the request held in last' through createApplication
SubmitAnswered == IsSubmit(last') /\ createApplication(last'.req)

AppIds(table) == { table[i].id : i \in 1..Len(table) }

-----------------------------------------------------------------------------
(* Properties *)

\* C1: every submit whose firstName, lastName and email are non-empty and
\* whose email is well-formed creates exactly one new application record
\* with status submitted, and is answered 201 with that record's id (an id
\* no earlier record has) and status submitted.
C1_ValidSubmitCreates ==
    [][ ( /\ SubmitAnswered
          /\ NameGiven(last'.req, "firstName")
          /\ NameGiven(last'.req, "lastName")
          /\ EmailGiven(last'.req)
          /\ WellFormedEmail(last'.req["email"]) )
        => /\ Len(applications') = Len(applications) + 1
           /\ SubSeq(applications', 1, Len(applications)) = applications
           /\ applications'[Len(applications')].status = "submitted"
           /\ applications'[Len(applications')].id \notin AppIds(applications)
           /\ last'.code = 201
           /\ last'.body = [applicationId |-> applications'[Len(applications')].id,
                           status |-> "submitted"] ]_vars

\* C2: every submit in which firstName, lastName or email is missing or
\* empty is answered 400 'Missing required fields', and the stored
\* application records are the same after the call as before it.
C2_MissingFieldRejected ==
    [][ ( /\ SubmitAnswered
          /\ \/ ~NameGiven(last'.req, "firstName")
             \/ ~NameGiven(last'.req, "lastName")
             \/ ~EmailGiven(last'.req) )
        => /\ last'.code = 400
           /\ last'.body.error = "Missing required fields"
           /\ applications' = applications ]_vars

C2_Witness ==
    /\ IsSubmit(last)
    /\ NameGiven(last.req, "firstName")
    /\ "lastName" \in DOMAIN last.req /\ last.req["lastName"] = ""
    /\ EmailGiven(last.req) /\ WellFormedEmail(last.req["email"])
    /\ last.code = 400
    /\ Len(applications) > 0

\* C3: every submit whose firstName and lastName are present but whose
\* email is malformed (no @, no dot in the domain part, empty local part,
\* or whitespace) is answered 400 'Invalid email format', and no
\* application record is created.
C3_MalformedEmailRejected ==
    [][ ( /\ SubmitAnswered
          /\ NameGiven(last'.req, "firstName")
          /\ NameGiven(last'.req, "lastName")
          /\ EmailGiven(last'.req)
          /\ MalformedEmail(last'.req["email"]) )
        => /\ last'.code = 400
           /\ last'.body.error = "Invalid email format"
           /\ applications' = applications ]_vars

C3_Witness ==
    /\ IsSubmit(last)
    /\ NameGiven(last.req, "firstName")
    /\ NameGiven(last.req, "lastName")
    /\ EmailGiven(last.req)
    /\ Positions(last.req["email"], "@") # {}
    /\ MalformedEmail(last.req["email"])
    /\ last.code = 400
    /\ last.body.error = "Invalid email format"
    /\ Len(applications) > 0

IsUpdate(l) == l.op = "updateApplicationStatus"

\* the step answers the request held in last' through updateApplicationStatus
UpdateAnswered ==
    IsUpdate(last') /\ updateApplicationStatus(last'.req.id, last'.req.body)

\* the rows of a table that an :id path value names
RowsNamed(table, id) ==
    { i \in 1..Len(table) : IsInt4(id) /\ table[i].id = DecimalValue(id) }

StatusGiven(body) == "status" \in DOMAIN body /\ body["status"] \in
                        {"submitted", "under_review", "approved", "rejected"}

\* C4: in every reachable state the status of every stored application is
\* one of submitted, under_review, approved, rejected, and a record that a
\* step creates has status submitted.
C4_StatusInFixedSet ==
    [][ /\ \A i \in 1..Len(applications) : applications[i].status \in
             {"submitted", "under_review", "approved", "rejected"}
        /\ \A i \in 1..Len(applications') : applications'[i].status \in
             {"submitted", "under_review", "approved", "rejected"}
        /\ \A i \in 1..Len(applications') :
             i > Len(applications) => applications'[i].status = "submitted"
      ]_vars

C4_Witness ==
    /\ Len(applications) = 2
    /\ applications[1].status = "rejected"
    /\ applications[2].status = "submitted"
    /\ IsSubmit(last) /\ last.code = 201
    /\ last.body.applicationId = applications[2].id

\* C5: updateStatus(id, s) with s absent or not one of the four allowed
\* values is answered 400 for every id, existing or not, and leaves the
\* status and updatedAt of every application unchanged.
C5_InvalidStatusRejected ==
    [][ (UpdateAnswered /\ ~StatusGiven(last'.req.body))
        => /\ last'.code = 400
           /\ Len(applications') = Len(applications)
           /\ \A i \in 1..Len(applications) :
                /\ applications'[i].status = applications[i].status
                /\ applications'[i].updated_at = applications[i].updated_at
      ]_vars

C5_Witness ==
    /\ IsUpdate(last)
    /\ RowsNamed(applications, last.req.id) # {}
    /\ "status" \in DOMAIN last.req.body
    /\ last.req.body["status"] = "Approved"
    /\ last.code = 400
    /\ \E i \in RowsNamed(applications, last.req.id) :
         applications[i].status = "under_review"

\* C6: updateStatus(id, s) with a valid status s and an id that matches no
\* stored application is answered 404, and creates or changes no record.
C6_UnknownIdNotFound ==
    [][ ( /\ UpdateAnswered
          /\ StatusGiven(last'.req.body)
          /\ RowsNamed(applications, last'.req.id) = {} )
        => /\ last'.code = 404
           /\ applications' = applications ]_vars

\* C7: for every existing application and every ordered pair (a, b) of the
\* four statuses, when the stored status is a, updateStatus(id, b) succeeds
\* and leaves the stored status equal to b; no status is terminal.
C7_FullyConnected ==
    [][ ( /\ UpdateAnswered
          /\ StatusGiven(last'.req.body)
          /\ RowsNamed(applications, last'.req.id) # {} )
        => /\ last'.code = 200
           /\ last'.body.status = last'.req.body["status"]
           /\ Len(applications') = Len(applications)
           /\ \A i \in RowsNamed(applications, last'.req.id) :
                /\ applications'[i].status = last'.req.body["status"]
                /\ last'.body.id = applications[i].id ]_vars

C7_Witness ==
    /\ IsUpdate(last)
    /\ last.code = 200
    /\ last.prior = "approved"
    /\ last.req.body["status"] = "submitted"
    /\ \E i \in RowsNamed(applications, last.req.id) :
         applications[i].status = "submitted"

IsRegister(l) == l.op = "register"
IsLogin(l) == l.op = "login"

PasswordGiven(body) == "password" \in DOMAIN body /\ body["password"] # NULL

UsersWithEmail(table, email) ==
    { i \in 1..Len(table) : table[i].email = email }

\* the step answers the request held in last' from register's validation
\* or existence check
RegisterCheckAnswered ==
    /\ IsRegister(last')
    /\ \E r \in Reqs : registerCheck(r, last'.req) /\ pc'[r] = "idle"

\* C8: register with a password shorter than 8 characters is answered 400
\* and creates no user; register with a well-formed email not yet in the
\* store and a password of length >= 8 is answered 201 with a token whose
\* embedded email equals the input email.
C8_RegisterPasswordLength ==
    [][ /\ ( /\ RegisterCheckAnswered
             /\ PasswordGiven(last'.req)
             /\ Len(last'.req["password"]) < 8 )
           => (last'.code = 400 /\ users' = users)
        /\ \A r \in Reqs :
             ( /\ registerCreate(r)
               /\ WellFormedEmail(regReq[r]["email"])
               /\ Len(regReq[r]["password"]) >= 8
               /\ UsersWithEmail(users, regReq[r]["email"]) = {} )
             => /\ last'.code = 201
                /\ last'.body.token.claims.email = regReq[r]["email"]
      ]_vars

\* C9: register called with an email that already belongs to a stored user
\* is answered 409, and the number of stored users is the same after the
\* call as before it.
C9_DuplicateEmailConflict ==
    [][ ( /\ RegisterCheckAnswered
          /\ EmailGiven(last'.req)
          /\ PasswordGiven(last'.req)
          /\ Len(last'.req["password"]) >= 8
          /\ UsersWithEmail(users, last'.req["email"]) # {} )
        => /\ last'.code = 409
           /\ Len(users') = Len(users) ]_vars

\* C10: login with the email of an existing user and a password that does
\* not verify against that user's stored hash is answered 401 'Invalid
\* credentials' without a token, exactly as for an email that matches no
\* user.
C10_WrongPasswordUnauthorized ==
    ( /\ IsLogin(last)
      /\ EmailGiven(last.req)
      /\ PasswordGiven(last.req) /\ Len(last.req["password"]) > 0
      /\ UsersWithEmail(users, last.req["email"]) # {}
      /\ \A i \in UsersWithEmail(users, last.req["email"]) :
           ~UserValidatePassword(last.req["password"], users[i].password_hash) )
    => /\ last.code = 401
       /\ last.body = [error |-> "Invalid credentials"]

\* C11: a register request without a role on an email not yet stored is
\* answered 201 and stores its user with role 'customer'; login with the
\* email and password of a user stored with role 'customer' is answered 200
\* with a token whose embedded userId, email and role equal those of the
\* stored user, the role being 'customer'.
C11_RegisterThenLogin ==
    [][ /\ \A r \in Reqs :
             ( /\ registerCreate(r)
               /\ "role" \notin DOMAIN regReq[r]
               /\ UsersWithEmail(users, regReq[r]["email"]) = {} )
             => /\ last'.code = 201
                /\ \E i \in UsersWithEmail(users', regReq[r]["email"]) :
                     users'[i].role = "customer"
        /\ ( /\ IsLogin(last')
             /\ login(last'.req)
             /\ EmailGiven(last'.req)
             /\ PasswordGiven(last'.req)
             /\ \E i \in UsersWithEmail(users, last'.req["email"]) :
                  /\ users[i].role = "customer"
                  /\ UserValidatePassword(last'.req["password"],
                                          users[i].password_hash) )
           => /\ last'.code = 200
              /\ \E i \in UsersWithEmail(users, last'.req["email"]) :
                   /\ last'.body.token.claims.userId = users[i].id
                   /\ last'.body.token.claims.email = users[i].email
                   /\ last'.body.token.claims.role = users[i].role
                   /\ last'.body.token.claims.role = "customer"
      ]_vars

\* C12: in every reachable state no two stored users have the same email.
C12_EmailUnique ==
    \A i, j \in 1..Len(users) : users[i].email = users[j].email => i = j

\* two users are stored and an INSERT of a register request that lost the
\* race for an email was refused by the store
C12_Witness ==
    /\ Len(users) = 2
    /\ userIdSeq > Len(users)
    /\ users[1].email # users[2].email

\* C13: whenever a register request ends in a response other than 201 with
\* a token, the users table is the same after the request as before it.
C13_NoPartialRegister ==
    [][ /\ RegisterCheckAnswered => users' = users
        /\ \A r \in Reqs :
             ( /\ registerCreate(r)
               /\ ~(last'.code = 201 /\ "token" \in DOMAIN last'.body) )
             => users' = users
      ]_vars

IsAuthenticate(l) == l.op = "authenticate"
IsAuthorize(l) == l.op = "authorize"

\* the middleware called next()
Proceeded(l) == "next" \in DOMAIN l

\* the request carries an Authorization header that starts with 'Bearer '
HasBearerPrefix(headers) ==
    /\ "authorization" \in DOMAIN headers
    /\ Len(headers["authorization"]) >= 7
    /\ \A i \in 1..7 : headers["authorization"][i] = Bearer[i]

\* what follows 'Bearer ' in the header
BearerToken(headers) ==
    [ i \in 1..(Len(headers["authorization"]) - 7) |->
        headers["authorization"][i + 7] ]

\* the header has the form 'Bearer <token>'
BearerForm(headers) ==
    HasBearerPrefix(headers) /\ Len(headers["authorization"]) > 7

IsJwt(token) == Len(token) = 1
SignedWithSecret(token) ==
    token[1].signature = JwtSignature(token[1].claims, JWT_SECRET)

\* the step runs authenticate on the request held in last'
AuthenticateAnswered == IsAuthenticate(last') /\ authenticate(last'.req)

\* C14: authenticate calls next only if the Authorization header is
\* present, starts with 'Bearer ', and the token after it is a JWT signed
\* with the secret and not yet expired; when the header is absent or not
\* of the form 'Bearer <token>' it answers 401 and does not call next.
C14_AuthenticateOnlyBlocks ==
    [][ AuthenticateAnswered
        => /\ Proceeded(last')
              => /\ HasBearerPrefix(last'.req)
                 /\ IsJwt(BearerToken(last'.req))
                 /\ SignedWithSecret(BearerToken(last'.req))
                 /\ now < BearerToken(last'.req)[1].claims.exp
           /\ ~BearerForm(last'.req)
              => (last'.code = 401 /\ ~Proceeded(last'))
      ]_vars

\* a request with a login token after 'Bearer ' was let through
C14_Witness ==
    /\ IsAuthenticate(last)
    /\ Proceeded(last)
    /\ BearerForm(last.req)
    /\ \E i \in 1..Len(users) : last.user.userId = users[i].id

\* C15: for a header of the form 'Bearer <token>', a token whose signature
\* is invalid is answered 401 'Invalid token', and a token signed with the
\* secret whose expiry has passed is answered 401 'Token expired'.
C15_TokenFailuresDistinguished ==
    [][ ( /\ AuthenticateAnswered
          /\ BearerForm(last'.req)
          /\ IsJwt(BearerToken(last'.req)) )
        => /\ ~SignedWithSecret(BearerToken(last'.req))
              => /\ last'.code = 401
                 /\ last'.body = [error |-> "Invalid token"]
           /\ ( /\ SignedWithSecret(BearerToken(last'.req))
                /\ now >= BearerToken(last'.req)[1].claims.exp )
              => /\ last'.code = 401
                 /\ last'.body = [error |-> "Token expired"]
      ]_vars

TokenIssued(l) ==
    /\ l.op \in {"register", "login"}
    /\ "token" \in DOMAIN l.body

\* C16: every token in a register or login response carries userId, email,
\* role and an expiry later than its issue time; and when the token of the
\* last response is presented as 'Bearer <token>' before its expiry,
\* authenticate calls next with req.user holding the userId, email and
\* role of the user the response named, who is a stored user.
C16_TokenRoundTrip ==
    [][ /\ TokenIssued(last')
           => /\ {"userId", "email", "role", "exp"}
                    \subseteq DOMAIN last'.body.token.claims
              /\ last'.body.token.claims.exp > last'.body.token.claims.iat
        /\ ( /\ TokenIssued(last)
             /\ authenticate([authorization |->
                                Bearer \o <<last.body.token>>])
             /\ now < last.body.token.claims.exp )
           => /\ IsAuthenticate(last')
              /\ Proceeded(last')
              /\ last'.user.userId = last.body.user.id
              /\ last'.user.email = last.body.user.email
              /\ last'.user.role = last.body.user.role
              /\ \E i \in 1..Len(users) :
                   /\ users[i].id = last'.user.userId
                   /\ users[i].email = last'.user.email
                   /\ users[i].role = last'.user.role
      ]_vars

\* a token issued by login to a user with the default role came back
\* attached to the request
C16_Witness ==
    /\ IsAuthenticate(last)
    /\ Proceeded(last)
    /\ last.user.role = "customer"
    /\ last.user.iat < last.user.exp
    /\ last.req = [authorization |->
                     Bearer \o <<[claims |-> last.user,
                                  signature |->
                                    JwtSignature(last.user, JWT_SECRET)]>>]

\* C17: authorize(allowedRoles) on a request with an attached user answers
\* 403 without calling next when the user's role is not in allowedRoles,
\* and calls next without a response when it is; on a request with no
\* attached user it answers 401 and does not call next.
C17_AuthorizeByRole ==
    IsAuthorize(last)
    => IF "user" \notin DOMAIN last.req.req
       THEN last.code = 401 /\ ~Proceeded(last)
       ELSE IF last.req.req["user"].role \in last.req.roles
       THEN Proceeded(last) /\ last.code = 0
       ELSE last.code = 403 /\ ~Proceeded(last)

\* the headers carry 'Bearer <token>' with a JWT signed with the secret
\* and not yet expired
ValidBearer(headers) ==
    /\ BearerForm(headers)
    /\ IsJwt(BearerToken(headers))
    /\ SignedWithSecret(BearerToken(headers))
    /\ now < BearerToken(headers)[1].claims.exp

\* C18: a request to GET /admin/applications, GET /admin/applications/:id
\* or PUT /admin/applications/:id/status that carries no valid bearer
\* token is answered 401 or 403, so it is handed no application record,
\* and it leaves the applications table as it was.
C18_AdminRoutesGated ==
    [][ \A headers \in AdminHeaders :
          ( /\ ~ValidBearer(headers)
            /\ \/ AdminGetAll(headers)
               \/ \E id \in AdminIds : AdminGetById(headers, id)
               \/ \E id \in AdminIds : \E body \in AdminStatusBodies :
                    AdminUpdateStatus(headers, id, body) )
          => /\ last'.code \in {401, 403}
             /\ applications' = applications
      ]_vars

IsList(l) == l.op = "getAllApplications"
IsGet(l) == l.op = "getApplicationById"

\* the step answers a list request through getAllApplications
ListAnswered == IsList(last') /\ getAllApplications

\* rows holds each stored application exactly once
EveryApplicationOnce(rows) ==
    /\ Len(rows) = Len(applications)
    /\ \A i \in 1..Len(applications) :
         Cardinality({ k \in 1..Len(rows) :
                         rows[k].id = applications[i].id }) = 1

\* The two list properties are subscripted with last.op ahead of vars: a
\* step differs from a stuttering step already in the operation it records.

\* C19 as stated: list() returns every stored application exactly once,
\* each result having a createdAt strictly later than the one after it, and
\* returns the empty sequence with 200 when there are no records.
C19_ListStrictlyDescending ==
    [][ ListAnswered
        => /\ last'.code = 200
           /\ EveryApplicationOnce(last'.body)
           /\ \A k \in 1..(Len(last'.body) - 1) :
                last'.body[k].createdAt > last'.body[k + 1].createdAt
           /\ applications = <<>> => last'.body = <<>>
      ]_<<last.op, vars>>

\* C19, amended: list() returns every stored application exactly once,
\* no result having a createdAt earlier than the one after it (records
\* created at the same timestamp come in either order), and returns the
\* empty sequence with 200 when there are no records.
C19_ListDescending ==
    [][ ListAnswered
        => /\ last'.code = 200
           /\ EveryApplicationOnce(last'.body)
           /\ \A k \in 1..(Len(last'.body) - 1) :
                last'.body[k].createdAt >= last'.body[k + 1].createdAt
           /\ applications = <<>> => last'.body = <<>>
      ]_<<last.op, vars>>

\* a list of two applications created at different times, the later first
C19_Witness ==
    /\ IsList(last)
    /\ last.code = 200
    /\ Len(last.body) = 2
    /\ last.body[1].createdAt > last.body[2].createdAt
    /\ last.body[1].id > last.body[2].id

\* the step answers the request held in last' through getApplicationById
GetAnswered == IsGet(last') /\ getApplicationById(last'.req.id)

\* C20: a submit answered 201 stores under the returned id the firstName,
\* lastName and email it was given, and no later step changes them;
\* getById with an id that names a stored record is answered 200 with
\* that id and the record's firstName, lastName and email; getById with
\* an id that matches no stored record is answered 404.
C20_SubmitGetRoundTrip ==
    [][ /\ (SubmitAnswered /\ last'.code = 201)
           => \E i \in 1..Len(applications') :
                /\ applications'[i].id = last'.body.applicationId
                /\ applications'[i].first_name = last'.req["firstName"]
                /\ applications'[i].last_name = last'.req["lastName"]
                /\ applications'[i].email = last'.req["email"]
        /\ \A i \in 1..Len(applications) :
             /\ applications'[i].id = applications[i].id
             /\ applications'[i].first_name = applications[i].first_name
             /\ applications'[i].last_name = applications[i].last_name
             /\ applications'[i].email = applications[i].email
        /\ (GetAnswered /\ RowsNamed(applications, last'.req.id) # {})
           => /\ last'.code = 200
              /\ \E i \in RowsNamed(applications, last'.req.id) :
                   /\ last'.body.id = applications[i].id
                   /\ last'.body.firstName = applications[i].first_name
                   /\ last'.body.lastName = applications[i].last_name
                   /\ last'.body.email = applications[i].email
        /\ (GetAnswered /\ RowsNamed(applications, last'.req.id) = {})
           => last'.code = 404
      ]_vars

\* C21: a successful updateStatus(id, s) answers {id, status: s, updatedAt}
\* with updatedAt not earlier than the record's previous updatedAt and
\* createdAt and stores s; a stored status changes in no other step; and
\* every getById and list answers with the status the store holds at that
\* moment, so a read after the update reports s until the next successful
\* update of that id.
C21_ReadsNeverStale ==
    [][ /\ (UpdateAnswered /\ last'.code = 200)
           => \E i \in RowsNamed(applications, last'.req.id) :
                /\ DOMAIN last'.body = {"id", "status", "updatedAt"}
                /\ last'.body.id = applications[i].id
                /\ last'.body.status = last'.req.body["status"]
                /\ last'.body.updatedAt >= applications[i].updated_at
                /\ last'.body.updatedAt >= applications[i].created_at
                /\ applications'[i].status = last'.req.body["status"]
                /\ applications'[i].updated_at = last'.body.updatedAt
        /\ \A i \in 1..Len(applications) :
             applications'[i].status # applications[i].status
             => /\ UpdateAnswered
                /\ last'.code = 200
                /\ i \in RowsNamed(applications, last'.req.id)
        /\ (GetAnswered /\ last'.code = 200)
           => \E i \in RowsNamed(applications, last'.req.id) :
                last'.body.status = applications[i].status
        /\ ListAnswered
           => \A k \in 1..Len(last'.body) :
                \E i \in 1..Len(applications) :
                  /\ last'.body[k].id = applications[i].id
                  /\ last'.body[k].status = applications[i].status
      ]_<<last.op, vars>>

\* getById reports a status that an update stored at a later timestamp
\* than the record's creation
C21_Witness ==
    /\ IsGet(last)
    /\ last.code = 200
    /\ last.body.status = "approved"
    /\ \E i \in RowsNamed(applications, last.req.id) :
         /\ applications[i].status = "approved"
         /\ applications[i].updated_at > applications[i].created_at

\* the update requests that have passed validation and wait for the store
UpdatesInFlight == { r \in Reqs : pc[r] = "update" }

\* C22: among update requests in flight together for an existing id, each
\* one succeeds when the store executes its statement, that statement
\* alone sets the stored status to the request's status and leaves every
\* other record as it was, so the stored status is always the one of the
\* statement executed last; and a stored status only ever changes to the
\* status of a request in flight.
C22_LastWriteWins ==
    [][ /\ \A r \in Reqs :
             ( /\ updateStatusStore(r)
               /\ RowsNamed(applications, regReq[r].id) # {} )
             => /\ last'.code = 200
                /\ last'.body.status = regReq[r].body["status"]
                /\ Len(applications') = Len(applications)
                /\ \A i \in 1..Len(applications) :
                     IF i \in RowsNamed(applications, regReq[r].id)
                     THEN applications'[i].status = regReq[r].body["status"]
                     ELSE applications'[i] = applications[i]
        /\ \A i \in 1..Len(applications) :
             applications'[i].status # applications[i].status
             => \E r \in UpdatesInFlight :
                  /\ applications'[i].status = regReq[r].body["status"]
                  /\ pc'[r] = "idle"
      ]_vars

\* one request's statement has set the status of a record while another
\* request with a different status for the same id is still in flight
C22_Witness ==
    \E r \in UpdatesInFlight :
        /\ IsUpdate(last)
        /\ last.code = 200
        /\ last.req.id = regReq[r].id
        /\ last.body.status # regReq[r].body["status"]
        /\ \E i \in RowsNamed(applications, regReq[r].id) :
             applications[i].status = last.body.status

\* the stored applications that carry an email
ApplicationsWithEmail(table, email) ==
    { i \in 1..Len(table) : table[i].email = email }

\* C23: a submission with non-empty names and a well-formed email that an
\* already stored application carries is accepted like the first one: it
\* is answered 201, and afterwards the earlier record and a new record
\* with a different id both exist with that email.
C23_SameEmailAccepted ==
    [][ ( /\ SubmitAnswered
          /\ NameGiven(last'.req, "firstName")
          /\ NameGiven(last'.req, "lastName")
          /\ EmailGiven(last'.req)
          /\ WellFormedEmail(last'.req["email"])
          /\ ApplicationsWithEmail(applications, last'.req["email"]) # {} )
        => /\ last'.code = 201
           /\ Len(applications') = Len(applications) + 1
           /\ SubSeq(applications', 1, Len(applications)) = applications
           /\ applications'[Len(applications')].email = last'.req["email"]
           /\ applications'[Len(applications')].id \notin AppIds(applications)
      ]_vars

\* C24: a submission with non-empty names and a well-formed email is
\* accepted whether or not it carries a productType, and the record it
\* creates has productType 'checking' when the submission has none and the
\* supplied value when it has one.
C24_ProductTypeDefault ==
    [][ ( /\ SubmitAnswered
          /\ NameGiven(last'.req, "firstName")
          /\ NameGiven(last'.req, "lastName")
          /\ EmailGiven(last'.req)
          /\ WellFormedEmail(last'.req["email"]) )
        => /\ last'.code = 201
           /\ Len(applications') = Len(applications) + 1
           /\ applications'[Len(applications')].product_type =
                IF "productType" \in DOMAIN last'.req
                THEN last'.req["productType"] ELSE "checking"
      ]_vars

\* the strings a register or login response body holds outside the email
ResponseStrings(body) ==
    { body[k] : k \in DOMAIN body \cap {"message", "error"} }
    \cup (IF "user" \in DOMAIN body THEN {body.user.role} ELSE {})
    \cup (IF "token" \in DOMAIN body THEN {body.token.claims.role} ELSE {})

\* C25: the row a register request stores has no password column, and its
\* password_hash verifies the request's password without being equal to
\* it; every register and login response, success or failure, has only
\* the keys message, token, user and error, its user object has exactly
\* id, email and role, its token carries userId, email, role, iat and exp,
\* and no string in it equals the request's password or a stored hash.
C25_PasswordNeverLeaves ==
    [][ /\ \A r \in Reqs :
             (registerCreate(r) /\ Len(users') > Len(users))
             => LET row == users'[Len(users')]
                IN  /\ DOMAIN row = {"id", "email", "password_hash", "role",
                                     "created_at", "updated_at"}
                    /\ row.password_hash # regReq[r]["password"]
                    /\ UserValidatePassword(regReq[r]["password"],
                                            row.password_hash)
        /\ (IsRegister(last') \/ IsLogin(last'))
           => /\ DOMAIN last'.body \subseteq {"message", "token", "user", "error"}
              /\ "user" \in DOMAIN last'.body
                 => DOMAIN last'.body.user = {"id", "email", "role"}
              /\ "token" \in DOMAIN last'.body
                 => DOMAIN last'.body.token.claims =
                      {"userId", "email", "role", "iat", "exp"}
              /\ \A s \in ResponseStrings(last'.body) :
                   /\ PasswordGiven(last'.req) => s # last'.req["password"]
                   /\ \A i \in 1..Len(users') : s # users'[i].password_hash
      ]_vars

\* a login with a password was answered with a user object while a hash
\* is stored
C25_Witness ==
    /\ IsLogin(last)
    /\ last.code = 200
    /\ PasswordGiven(last.req)
    /\ "user" \in DOMAIN last.body
    /\ \E i \in 1..Len(users) :
         UserValidatePassword(last.req["password"], users[i].password_hash)

IsHealth(l) == l.op = "health"

\* C26: GET /health is answered 200 with a body whose status is 'ok' and
\* which has a timestamp property, whatever the tables hold, and leaves
\* both tables as they were.
C26_HealthWithTimestamp ==
    [][ (IsHealth(last') /\ health)
        => /\ last'.code = 200
           /\ last'.body.status = "ok"
           /\ "timestamp" \in DOMAIN last'.body
           /\ UNCHANGED <<appVars, userVars>>
      ]_<<last.op, vars>>

\* C27: no step removes an application record; a stored record differs
\* after a step only when the step is a status update answered 200 for
\* that record's id, and then only in status and updated_at; a record is
\* added only by a submission answered 201; and list, getById, health,
\* register, login and every request answered with a failure leave the
\* applications table as it was.
C27_OnlyStatusUpdateMutates ==
    [][ /\ Len(applications') >= Len(applications)
        /\ \A i \in 1..Len(applications) :
             applications'[i] # applications[i]
             => /\ IsUpdate(last')
                /\ UpdateAnswered
                /\ last'.code = 200
                /\ i \in RowsNamed(applications, last'.req.id)
                /\ applications'[i] =
                     [applications[i] EXCEPT
                        !.status = last'.req.body["status"],
                        !.updated_at = applications'[i].updated_at]
        /\ Len(applications') > Len(applications)
           => (SubmitAnswered /\ last'.code = 201)
        /\ ( \/ last'.op \in {"getAllApplications", "getApplicationById",
                              "health", "register", "login"}
             \/ last'.code >= 400
             \/ \E r \in Reqs : pc'[r] # pc[r] )
           => applications' = applications
      ]_<<last.op, vars>>

\* a status update answered 200 while a second record holds another status
C27_Witness ==
    /\ IsUpdate(last)
    /\ last.code = 200
    /\ Len(applications) = 2
    /\ \E i, j \in 1..2 :
         /\ applications[i].id = last.body.id
         /\ applications[i].status = last.body.status
         /\ applications[j].status # last.body.status

\* C28: when two register requests for the same email have both passed
\* the existence check, the one whose INSERT runs first is answered 201,
\* the one whose INSERT runs second is answered 409 and adds no user, and
\* exactly one user with that email is stored.
C28_RegisterRaceConflict ==
    [][ \A r \in Reqs :
          ( /\ registerCreate(r)
            /\ \/ \E q \in Reqs \ {r} :
                    /\ pc[q] = "create"
                    /\ regReq[q]["email"] = regReq[r]["email"]
               \/ UsersWithEmail(users, regReq[r]["email"]) # {} )
          => /\ Cardinality(UsersWithEmail(users', regReq[r]["email"])) = 1
             /\ IF UsersWithEmail(users, regReq[r]["email"]) = {}
                THEN last'.code = 201
                ELSE last'.code = 409 /\ users' = users
      ]_vars

\* C29: no request under the public /applications prefix other than the
\* creation is answered with application records or changes a status:
\* listing, reading by id and updating a status there are not answered
\* 200 and leave the applications table as it was.
C29_PublicOnlyCreates ==
    [][ ( \/ PublicGetAll
          \/ \E id \in AdminIds : PublicGetById(id)
          \/ \E id \in AdminIds : \E body \in AdminStatusBodies :
               PublicUpdateStatus(id, body) )
        => /\ last'.code # 200
           /\ applications' = applications
      ]_<<last.op, vars>>

\* C30: getById, and updateStatus with a valid status, answer 404 for
\* every id path value that matches no stored record, an integer or not,
\* and never 500.
C30_UnknownPathIdNotFound ==
    [][ ( /\ \/ GetAnswered
             \/ (UpdateAnswered /\ StatusGiven(last'.req.body))
          /\ RowsNamed(applications, last'.req.id) = {} )
        => /\ last'.code = 404
           /\ last'.code # 500
      ]_vars

====
